---- MODULE Spec2Model ----
(***************************************************************************)
(* Krita Dynamic Panel Manager.                                            *)
(*                                                                         *)
(*   PanelLayoutManager    (panel_layout_manager.py)   -> SpecLayout       *)
(*   PanelManagerExtension (panel_manager_extension.py)-> SpecExtension    *)
(*   DragDropPanelWidget   (drag_drop_panel_widget.py) -> SpecWidget       *)
(*                                                                         *)
(* The three classes share no state (the extension never calls the layout  *)
(* manager, and the widgets' signals are connected to nothing), so each    *)
(* has its own specification over its own variables; the variables of the  *)
(* other two classes stay at their initial values.                         *)
(***************************************************************************)
EXTENDS Integers, Sequences, FiniteSets, TLC

VARIABLES
    \* ---- PanelLayoutManager
    config_path,      \* self.config_path: NoPath or ThePath
    file,             \* the durable record at config_path
    lm_call,          \* the last call: [op, arg, env, ret, existed]
    lm_prev,          \* the call before it (of calls other than saveLayout and
                      \* clearSavedLayout the operation only)
    cleared,          \* a clearSavedLayout has removed the record or found none,
                      \* and no saveLayout has returned True since
    \* ---- PanelManagerExtension
    panel_columns,    \* self.panel_columns: column id -> widget
    geometry,         \* geometry of every live column widget
    nextWidget,       \* identity of the next widget to be constructed
    ext_call,         \* the last call: [op, arg, ret, before, created, positioned]
    streak,           \* consecutive addPanelColumn calls since the mapping was empty
    window,           \* Krita.instance().activeWindow()
    \* ---- DragDropPanelWidget
    style,            \* per widget: the style sheet in force
    dragStartPosition,\* per widget: the attribute set by mousePressEvent
    drags,            \* drag operations started by QDrag.exec_ and not yet over
    entered,          \* per widget: the payload of the drag-enter it accepted since
                      \* its last drag-leave or drop (NoEntry: no such drag-enter)
    w_event,          \* the last event delivered and what the handler did with it
    faulted           \* per widget: one of its handlers has caught an exception

lmVars  == <<config_path, file, lm_call, lm_prev, cleared>>
extVars == <<panel_columns, geometry, nextWidget, ext_call, streak, window>>
wVars   == <<style, dragStartPosition, drags, entered, w_event, faulted>>
vars    == <<lmVars, extVars, wVars>>

(***************************************************************************)
(* Python values. Every value carries its type, so that isinstance checks  *)
(* and type errors are decided by the model as the interpreter decides     *)
(* them.                                                                   *)
(***************************************************************************)
PyNone     == [t |-> "NoneType"]
PyInt(n)   == [t |-> "int", v |-> n]
PyBool(b)  == [t |-> "bool", v |-> b]
PyStr(s)   == [t |-> "str", v |-> s]
PyList     == [t |-> "list"]
PyDict(f)  == [t |-> "dict", f |-> f]

\* isinstance(v, int): bool is a subclass of int
IsInstanceInt(v) == v.t \in {"int", "bool"}
IsInstanceBool(v) == v.t = "bool"
IsInstanceDict(v) == v.t = "dict"
IsInstanceQRect(v) == v.t = "QRect"

\* QRect(x, y, w, h) keeps two corners; width() and height() are derived
QRect(x, y, w, h) ==
    [t |-> "QRect", x1 |-> x, y1 |-> y, x2 |-> x + w - 1, y2 |-> y + h - 1]
RectX(r) == r.x1
RectY(r) == r.y1
RectWidth(r) == r.x2 - r.x1 + 1
RectHeight(r) == r.y2 - r.y1 + 1

(***************************************************************************)
(* str(int) and int(str), on strings as sequences of characters.           *)
(***************************************************************************)
DigitChars == <<"0", "1", "2", "3", "4", "5", "6", "7", "8", "9">>

DigitValue(c) == (CHOOSE i \in 1..10 : DigitChars[i] = c) - 1

IsDigit(c) == \E i \in 1..10 : DigitChars[i] = c

RECURSIVE NatToStr(_)
NatToStr(n) ==
    IF n < 10 THEN <<DigitChars[n + 1]>>
    ELSE Append(NatToStr(n \div 10), DigitChars[(n % 10) + 1])

\* str(column_id) for an int
StrOfInt(n) == IF n < 0 THEN <<"-">> \o NatToStr(0 - n) ELSE NatToStr(n)

AllDigits(s) == Len(s) > 0 /\ \A i \in 1..Len(s) : IsDigit(s[i])

RECURSIVE DigitsToNat(_)
DigitsToNat(s) ==
    IF Len(s) = 0 THEN 0
    ELSE 10 * DigitsToNat(SubSeq(s, 1, Len(s) - 1)) + DigitValue(s[Len(s)])

\* int(column_id) for a str: [ok, v]; ok = FALSE is the ValueError
IntOfStr(s) ==
    IF AllDigits(s) THEN [ok |-> TRUE, v |-> DigitsToNat(s)]
    ELSE IF Len(s) > 1 /\ s[1] = "-" /\ AllDigits(Tail(s))
         THEN [ok |-> TRUE, v |-> 0 - DigitsToNat(Tail(s))]
    ELSE IF Len(s) > 1 /\ s[1] = "+" /\ AllDigits(Tail(s))
         THEN [ok |-> TRUE, v |-> DigitsToNat(Tail(s))]
    ELSE [ok |-> FALSE]

(***************************************************************************)
(* JSON documents, as json.dump writes and json.load reads them.           *)
(* An object is the sequence of its members <<key, value>> in file order;  *)
(* a key is a string (sequence of characters).                             *)
(***************************************************************************)
JNumber(n)  == [t |-> "number", v |-> n]
JTrue       == [t |-> "true"]
JFalse      == [t |-> "false"]
JNull       == [t |-> "null"]
JString(s)  == [t |-> "string", v |-> s]
JArray      == [t |-> "array"]
JFields(f)  == [t |-> "fields", f |-> f]
JObject(ms) == [t |-> "object", members |-> ms]
Unparseable == [t |-> "unparseable"]

\* json.dump of a scalar: bool is tested before int
JsonDumpScalar(v) ==
    IF v.t = "bool" THEN (IF v.v THEN JTrue ELSE JFalse)
    ELSE IF v.t = "int" THEN JNumber(v.v)
    ELSE IF v.t = "str" THEN JString(v.v)
    ELSE JNull

\* json.load of a scalar
JsonLoadScalar(j) ==
    IF j.t = "true" THEN PyBool(TRUE)
    ELSE IF j.t = "false" THEN PyBool(FALSE)
    ELSE IF j.t = "number" THEN PyInt(j.v)
    ELSE IF j.t = "string" THEN PyStr(j.v)
    ELSE IF j.t = "array" THEN PyList
    ELSE PyNone

\* json.dump of the inner dict {'x':..., ..., 'visible':...}
JsonDumpFields(d) == JFields([k \in DOMAIN d |-> JsonDumpScalar(d[k])])

\* json.load of a member value: an inner object becomes a dict
JsonLoadValue(j) ==
    IF j.t = "fields" THEN PyDict([k \in DOMAIN j.f |-> JsonLoadScalar(j.f[k])])
    ELSE JsonLoadScalar(j)

\* json.load of an object: a repeated key keeps its first position and its
\* last value
RECURSIVE JsonLoadMembers(_)
JsonLoadMembers(ms) ==
    IF Len(ms) = 0 THEN <<>>
    ELSE LET init == JsonLoadMembers(SubSeq(ms, 1, Len(ms) - 1))
             m    == ms[Len(ms)]
             kv   == <<m[1], JsonLoadValue(m[2])>>
         IN  IF \E i \in 1..Len(init) : init[i][1] = m[1]
             THEN [i \in 1..Len(init) |->
                      IF init[i][1] = m[1] THEN kv ELSE init[i]]
             ELSE Append(init, kv)

(***************************************************************************)
(* PanelLayoutManager                                                      *)
(***************************************************************************)
MaxColumns == 8

NoPath  == "None"
ThePath == "~/.local/share/krita/panel_manager/panel_layout.json"

NoFile      == [exists |-> FALSE]
FileOf(doc) == [exists |-> TRUE, doc |-> doc]

\* the keys of a dict of int column ids, in ascending order
RECURSIVE SortedSeq(_)
SortedSeq(S) ==
    IF S = {} THEN <<>>
    ELSE LET m == CHOOSE x \in S : \A y \in S : x <= y
         IN  <<m>> \o SortedSeq(S \ {m})

\* SerializePanel storing the right and bottom edges as width and height
SerializePanel_edges(panel) ==
    [x       |-> PyInt(RectX(panel.geometry)),
     y       |-> PyInt(RectY(panel.geometry)),
     width   |-> PyInt(panel.geometry.x2),
     height  |-> PyInt(panel.geometry.y2),
     visible |-> PyBool(panel.visible)]

\* the body of the for loop of saveLayout: one column's serializable dict
SerializePanel(panel) ==
    [x       |-> PyInt(RectX(panel.geometry)),
     y       |-> PyInt(RectY(panel.geometry)),
     width   |-> PyInt(RectWidth(panel.geometry)),
     height  |-> PyInt(RectHeight(panel.geometry)),
     visible |-> PyBool(panel.visible)]

\* layout_data of saveLayout, written by json.dump: one member per column,
\* keyed by str(column_id)
LayoutDocument(columns) ==
    LET ids == SortedSeq(DOMAIN columns)
    IN  JObject([i \in 1..Len(ids) |->
                    <<StrOfInt(ids[i]), JsonDumpFields(SerializePanel(columns[ids[i]]))>>])

\* saveLayout falling back to a path of its own when config_path is None
saveLayout_defaultPath(path, f, columns, fault) ==
    IF fault = "open" THEN [ret |-> FALSE, file |-> f]
    ELSE IF fault = "write" THEN [ret |-> FALSE, file |-> FileOf(Unparseable)]
    ELSE [ret |-> TRUE, file |-> FileOf(LayoutDocument(columns))]

\* saveLayout(panel_columns): the result and the durable record afterwards.
\* fault is what the file system does: "none", "open" (open() raises), or
\* "write" (open() has truncated the file and json.dump raises)
saveLayout(path, f, columns, fault) ==
    IF path = NoPath THEN [ret |-> FALSE, file |-> f]
    ELSE IF fault = "open" THEN [ret |-> FALSE, file |-> f]
    ELSE IF fault = "write" THEN [ret |-> FALSE, file |-> FileOf(Unparseable)]
    ELSE [ret |-> TRUE, file |-> FileOf(LayoutDocument(columns))]

\* QRect(data['x'], data['y'], data['width'], data['height']) and
\* data['visible'] for one loaded member: [ok, entry]; ok = FALSE is the
\* TypeError (data is no dict, an argument is no int) or the KeyError
ConvertEntry(data) ==
    IF ~IsInstanceDict(data) THEN [ok |-> FALSE]
    ELSE IF ~({"x", "y", "width", "height", "visible"} \subseteq DOMAIN data.f)
         THEN [ok |-> FALSE]
    ELSE IF \E k \in {"x", "y", "width", "height"} : ~IsInstanceInt(data.f[k])
         THEN [ok |-> FALSE]
    ELSE LET n(k) == IF data.f[k].t = "bool"
                     THEN (IF data.f[k].v THEN 1 ELSE 0)
                     ELSE data.f[k].v
         IN  [ok |-> TRUE,
              entry |-> PyDict([geometry |-> QRect(n("x"), n("y"), n("width"), n("height")),
                                visible  |-> data.f.visible])]

\* the for loop skipping an item it cannot convert instead of giving up
RECURSIVE ConvertItems_skip(_)
ConvertItems_skip(items) ==
    IF Len(items) = 0 THEN [ok |-> TRUE, f |-> <<>>]
    ELSE LET init == ConvertItems_skip(SubSeq(items, 1, Len(items) - 1))
             item == items[Len(items)]
             key  == IntOfStr(item[1])
             conv == ConvertEntry(item[2])
         IN  IF ~key.ok \/ ~conv.ok THEN init
             ELSE [ok |-> TRUE,
                   f  |-> [k \in DOMAIN init.f \cup {PyInt(key.v)} |->
                              IF k = PyInt(key.v) THEN conv.entry ELSE init.f[k]]]

\* the for loop of loadLayout over layout_data.items(): [ok, f]; a later
\* item with the same int(column_id) replaces an earlier one
RECURSIVE ConvertItems(_)
ConvertItems(items) ==
    IF Len(items) = 0 THEN [ok |-> TRUE, f |-> <<>>]
    ELSE LET init == ConvertItems(SubSeq(items, 1, Len(items) - 1))
             item == items[Len(items)]
             key  == IntOfStr(item[1])
             conv == ConvertEntry(item[2])
         IN  IF ~init.ok \/ ~key.ok \/ ~conv.ok THEN [ok |-> FALSE]
             ELSE [ok |-> TRUE,
                   f  |-> [k \in DOMAIN init.f \cup {PyInt(key.v)} |->
                              IF k = PyInt(key.v) THEN conv.entry ELSE init.f[k]]]

\* loadLayout(): the converted layout, or PyNone
loadLayout(path, f, readable) ==
    IF path = NoPath \/ ~f.exists THEN PyNone
    ELSE IF ~readable THEN PyNone
    ELSE IF f.doc.t = "unparseable" THEN PyNone
    ELSE IF f.doc.t # "object" THEN PyNone
    ELSE LET conv == ConvertItems(JsonLoadMembers(f.doc.members))
         IN  IF conv.ok THEN PyDict(conv.f) ELSE PyNone

\* getDefaultLayout taking 200 and 600 for the right and bottom edges
getDefaultLayout_edges ==
    PyDict([k \in {PyInt(1)} |->
               PyDict([geometry |-> QRect(0, 0, 201, 601), visible |-> PyBool(TRUE)])])

\* getDefaultLayout()
getDefaultLayout ==
    PyDict([k \in {PyInt(1)} |->
               PyDict([geometry |-> QRect(0, 0, 200, 600), visible |-> PyBool(TRUE)])])

\* the checks validateLayout makes on one item of layout_data
ValidItem(column_id, data) ==
    /\ IsInstanceInt(column_id)
    /\ IsInstanceDict(data)
    /\ {"geometry", "visible"} \subseteq DOMAIN data.f
    /\ IsInstanceQRect(data.f.geometry)
    /\ IsInstanceBool(data.f.visible)

\* validateLayout(layout_data)
validateLayout(layout_data) ==
    IF ~IsInstanceDict(layout_data) THEN FALSE
    ELSE IF Cardinality(DOMAIN layout_data.f) > MaxColumns THEN FALSE
    ELSE \A k \in DOMAIN layout_data.f : ValidItem(k, layout_data.f[k])

\* clearSavedLayout reporting the removal without making it
clearSavedLayout_keepsRecord(path, f, removable) ==
    IF path # NoPath /\ f.exists
    THEN (IF removable THEN [ret |-> TRUE, file |-> f]
                       ELSE [ret |-> FALSE, file |-> f])
    ELSE [ret |-> FALSE, file |-> f]

\* clearSavedLayout(): the result and the durable record afterwards
clearSavedLayout(path, f, removable) ==
    IF path # NoPath /\ f.exists
    THEN (IF removable THEN [ret |-> TRUE, file |-> NoFile]
                       ELSE [ret |-> FALSE, file |-> f])
    ELSE [ret |-> FALSE, file |-> f]

(***************************************************************************)
(* Inputs of the layout manager's operations.                              *)
(***************************************************************************)
MaxCoord == 12

\* live panels: a visible one with the default geometry, a hidden empty one
PanelInputs ==
    {[geometry |-> QRect(0, 0, 200, 600), visible |-> TRUE],
     [geometry |-> QRect(0 - MaxCoord, 3, 0, MaxCoord), visible |-> FALSE]}

\* the panel of PanelInputs that is not p
OtherPanel(p) == CHOOSE q \in PanelInputs : q # p

KeySetInputs == {{}, {1}, {2, 5}, {0 - 3, 10 * MaxCoord}, 1..MaxColumns}

\* panel_columns arguments of saveLayout: column ids -> panels; the lowest
\* id holds one panel of PanelInputs, the other ids hold the other panel
ColumnInputs ==
    {[k \in K |-> IF \A j \in K : k <= j THEN p ELSE OtherPanel(p)] :
        <<K, p>> \in KeySetInputs \X PanelInputs}

\* the valid item {'geometry': QRect, 'visible': bool}
GoodItem == PyDict([geometry |-> QRect(0, 0, 200, 600), visible |-> PyBool(TRUE)])

\* items of layout_data arguments of validateLayout
ItemInputs ==
    {GoodItem,
     PyDict([geometry |-> QRect(5, 5, 0, 0), visible |-> PyBool(FALSE)]),
     PyDict([geometry |-> QRect(0, 0, 0 - MaxCoord, 600), visible |-> PyBool(TRUE)]),
     PyDict([geometry |-> QRect(0, 0, 200, 0 - 1), visible |-> PyBool(TRUE)]),
     PyDict([geometry |-> QRect(0, 0, 200, 600), visible |-> PyInt(1)]),
     PyDict([geometry |-> QRect(0, 0, 200, 600), visible |-> PyStr(<<"t", "r", "u", "e">>)]),
     PyDict([geometry |-> QRect(0, 0, 200, 600), visible |-> PyNone]),
     PyDict([geometry |-> PyNone, visible |-> PyBool(TRUE)]),
     PyDict([geometry |-> QRect(0, 0, 200, 600)]),
     PyDict([visible |-> PyBool(TRUE)]),
     PyInt(7),
     PyList}

\* layout_data arguments of validateLayout: no dict, or a dict of up to
\* MaxColumns + 1 items of which one is drawn from ItemInputs
LayoutInputs ==
    {PyNone, PyList}
    \cup {PyDict([k \in {PyInt(i) : i \in 1..n} |->
                    IF k = PyInt(j) THEN e ELSE GoodItem]) :
            <<n, j, e>> \in
                {<<n, j, e>> \in {0, 1, 2, MaxColumns, MaxColumns + 1} \X {1, 2} \X ItemInputs :
                    \/ n = 0 /\ j = 1 /\ e = GoodItem
                    \/ n \in {1, MaxColumns, MaxColumns + 1} /\ j = 1
                    \/ n = 2 /\ j = 2}}
    \cup {PyDict([k \in {PyStr(<<"1">>)} |-> GoodItem]),
          PyDict([k \in {PyInt(1), PyStr(<<"2">>)} |-> GoodItem])}

\* a member value as saveLayout writes it
GoodFields ==
    JFields([x |-> JNumber(0), y |-> JNumber(0), width |-> JNumber(200),
             height |-> JNumber(600), visible |-> JTrue])

\* GoodFields without the field k
FieldsWithout(k) == JFields([j \in DOMAIN GoodFields.f \ {k} |-> GoodFields.f[j]])

\* GoodFields with the field k holding v
FieldsWith(k, v) == JFields([GoodFields.f EXCEPT ![k] = v])

\* an object of two members, keyed "1" and key, the second holding value
TwoMembers(key, value) == JObject(<< <<StrOfInt(1), GoodFields>>, <<key, value>> >>)

\* contents of panel_layout.json found by loadLayout that no saveLayout of
\* this session wrote: a file left by another program or edited by hand
RecordInputs ==
    {Unparseable, JArray, JObject(<<>>)}
    \cup {TwoMembers(<<"2">>, FieldsWithout(k)) : k \in DOMAIN GoodFields.f}
    \cup {TwoMembers(key, GoodFields) : key \in {<<"a">>, <<"2", ".", "0">>, <<"0", "1">>}}
    \cup {TwoMembers(<<"2">>, value) :
             value \in {JNumber(7), JNull,
                        FieldsWith("x", JString(<<"0">>)),
                        FieldsWith("width", JNumber(0 - MaxCoord)),
                        FieldsWith("height", JNumber(0 - 1)),
                        FieldsWith("visible", JNumber(1)),
                        FieldsWith("visible", JNull)}}
    \cup {JObject([i \in 1..(MaxColumns + 1) |-> <<StrOfInt(i), GoodFields>>])}

(***************************************************************************)
(* The layout manager's operations as actions. lm_call records the call,   *)
(* lm_prev the one before it.                                              *)
(***************************************************************************)
\* env is what the file system did during the call, existed whether the
\* durable record existed when the call began
Call(op, arg, env, ret) ==
    [op |-> op, arg |-> arg, env |-> env, ret |-> ret, existed |-> file.exists]

\* what lm_prev keeps of a call: all of a saveLayout or clearSavedLayout,
\* of any other call the operation only
Abridge(c) ==
    IF c.op \in {"saveLayout", "clearSavedLayout"} THEN c
    ELSE [op |-> c.op, arg |-> PyNone, env |-> "none", ret |-> PyNone, existed |-> FALSE]

SaveLayout ==
    \E columns \in ColumnInputs, fault \in {"none", "open", "write"} :
        LET r == saveLayout(config_path, file, columns, fault)
        IN  /\ file' = r.file
            /\ lm_call' = Call("saveLayout", columns, fault, PyBool(r.ret))
            /\ lm_prev' = Abridge(lm_call)
            /\ cleared' = (cleared /\ ~r.ret)
            /\ UNCHANGED <<config_path, extVars, wVars>>

LoadLayout ==
    \E readable \in BOOLEAN :
        /\ lm_call' = Call("loadLayout", PyNone, IF readable THEN "none" ELSE "open",
                           loadLayout(config_path, file, readable))
        /\ lm_prev' = Abridge(lm_call)
        /\ UNCHANGED <<config_path, file, cleared, extVars, wVars>>

GetDefaultLayout ==
    /\ lm_call' = Call("getDefaultLayout", PyNone, "none", getDefaultLayout)
    /\ lm_prev' = Abridge(lm_call)
    /\ UNCHANGED <<config_path, file, cleared, extVars, wVars>>

ValidateLayout ==
    \E layout_data \in LayoutInputs :
        /\ lm_call' = Call("validateLayout", layout_data, "none",
                           PyBool(validateLayout(layout_data)))
        /\ lm_prev' = Abridge(lm_call)
        /\ UNCHANGED <<config_path, file, cleared, extVars, wVars>>

ClearSavedLayout ==
    \E removable \in BOOLEAN :
        LET r == clearSavedLayout(config_path, file, removable)
        IN  /\ file' = r.file
            /\ lm_call' = Call("clearSavedLayout", PyNone,
                               IF removable THEN "none" ELSE "remove", PyBool(r.ret))
            /\ lm_prev' = Abridge(lm_call)
            /\ cleared' = (cleared \/ ~r.file.exists)
            /\ UNCHANGED <<config_path, extVars, wVars>>

(***************************************************************************)
(* PanelManagerExtension                                                   *)
(***************************************************************************)
MaxWidgets == 9
WinWidth   == 801
WinHeight  == 600

\* Krita.instance().activeWindow(): none, or a window of some size
NoWindow == [open |-> FALSE]
MainWindow == [open |-> TRUE, width |-> WinWidth, height |-> WinHeight]

\* geometry of a widget that setGeometry was never called on
InitialGeometry == QRect(0, 0, 640, 480)

Max(a, b) == IF a >= b THEN a ELSE b
Min(a, b) == IF a <= b THEN a ELSE b

\* updateColumnPositions(): the widgets' geometries afterwards
updateColumnPositions(columns, geo, win) ==
    IF ~win.open THEN geo
    ELSE LET screen_width == win.width
             column_width == screen_width \div Max(Cardinality(DOMAIN columns), 1)
             idxOf(w)     == CHOOSE idx \in DOMAIN columns : columns[idx] = w
         IN  [w \in DOMAIN geo |->
                 IF \E idx \in DOMAIN columns : columns[idx] = w
                 THEN QRect((idxOf(w) - 1) * column_width, 0, column_width, win.height)
                 ELSE geo[w]]

\* the state of the extension that its operations read and write
ExtState(columns, geo, next) == [columns |-> columns, geometry |-> geo, next |-> next]

\* restriction of the geometries to the widgets the mapping still holds
LiveGeometry(columns, geo) ==
    [w \in {columns[k] : k \in DOMAIN columns} |-> geo[w]]

\* the tail of addPanelColumn: a new widget is constructed and stored
\* under column_id, and the columns are positioned
InsertColumn(st, column_id, win) ==
    LET new_column == st.next
        columns    == [k \in DOMAIN st.columns \cup {column_id} |->
                          IF k = column_id THEN new_column ELSE st.columns[k]]
        geo        == [w \in DOMAIN st.geometry \cup {new_column} |->
                          IF w = new_column THEN InitialGeometry ELSE st.geometry[w]]
    IN  [ret |-> TRUE, created |-> column_id,
         st  |-> ExtState(columns,
                          updateColumnPositions(columns, LiveGeometry(columns, geo), win),
                          st.next + 1)]

\* addPanelColumn refusing only beyond MaxColumns columns
addPanelColumn_offByOne(st, win) ==
    IF Cardinality(DOMAIN st.columns) > MaxColumns
    THEN [ret |-> FALSE, created |-> 0, st |-> st]
    ELSE InsertColumn(st, Cardinality(DOMAIN st.columns) + 1, win)

\* addPanelColumn numbering the columns from 0
addPanelColumn_zeroBased(st, win) ==
    IF Cardinality(DOMAIN st.columns) >= MaxColumns
    THEN [ret |-> FALSE, created |-> 0, st |-> st]
    ELSE InsertColumn(st, Cardinality(DOMAIN st.columns), win)

\* addPanelColumn numbering the new column after the highest id in use
addPanelColumn_afterMax(st, win) ==
    IF Cardinality(DOMAIN st.columns) >= MaxColumns
    THEN [ret |-> FALSE, created |-> 0, st |-> st]
    ELSE InsertColumn(st, IF DOMAIN st.columns = {} THEN 1
                          ELSE (CHOOSE m \in DOMAIN st.columns :
                                    \A k \in DOMAIN st.columns : k <= m) + 1,
                      win)

\* addPanelColumn(): [ret, created, st]
addPanelColumn(st, win) ==
    IF Cardinality(DOMAIN st.columns) >= MaxColumns
    THEN [ret |-> FALSE, created |-> 0, st |-> st]
    ELSE InsertColumn(st, Cardinality(DOMAIN st.columns) + 1, win)

\* max(self.panel_columns.keys())
MaxKey(columns) == CHOOSE m \in DOMAIN columns : \A k \in DOMAIN columns : k <= m

\* the found branch of removePanelColumn: the column is popped and the rest
\* positioned
DeleteColumn(st, id, win) ==
    LET columns == [k \in DOMAIN st.columns \ {id} |-> st.columns[k]]
    IN  [ret |-> TRUE,
         st  |-> ExtState(columns,
                          updateColumnPositions(columns,
                              LiveGeometry(columns, st.geometry), win),
                          st.next)]

\* removePanelColumn removing the last column when the id is not found
removePanelColumn_fallback(st, column_id, win) ==
    IF DOMAIN st.columns = {} THEN [ret |-> FALSE, st |-> st]
    ELSE LET id == IF column_id = PyNone THEN MaxKey(st.columns) ELSE column_id.v
         IN  IF id \in DOMAIN st.columns
             THEN DeleteColumn(st, id, win)
             ELSE DeleteColumn(st, MaxKey(st.columns), win)

\* removePanelColumn removing the lowest id when none is given
removePanelColumn_lowest(st, column_id, win) ==
    IF DOMAIN st.columns = {} THEN [ret |-> FALSE, st |-> st]
    ELSE LET id == IF column_id = PyNone
                   THEN CHOOSE m \in DOMAIN st.columns : \A k \in DOMAIN st.columns : m <= k
                   ELSE column_id.v
         IN  IF id \in DOMAIN st.columns
             THEN DeleteColumn(st, id, win)
             ELSE [ret |-> FALSE, st |-> st]

\* removePanelColumn(column_id): [ret, st]; column_id is PyNone or an int
removePanelColumn(st, column_id, win) ==
    IF DOMAIN st.columns = {} THEN [ret |-> FALSE, st |-> st]
    ELSE LET id == IF column_id = PyNone THEN MaxKey(st.columns) ELSE column_id.v
         IN  IF id \in DOMAIN st.columns
             THEN DeleteColumn(st, id, win)
             ELSE [ret |-> FALSE, st |-> st]

\* the loop of resetLayout over list(self.panel_columns.keys())
RECURSIVE RemoveEach(_, _, _)
RemoveEach(st, ids, win) ==
    IF Len(ids) = 0 THEN st
    ELSE RemoveEach(removePanelColumn(st, PyInt(Head(ids)), win).st, Tail(ids), win)

\* createDefaultLayout(): [ret, created, st] of its addPanelColumn call
createDefaultLayout(st, win) == addPanelColumn(st, win)

\* resetLayout leaving a layout alone that has the one column 1 already
resetLayout_ifChanged(st, win) ==
    IF DOMAIN st.columns = {1} THEN [ret |-> TRUE, created |-> 0, st |-> st]
    ELSE createDefaultLayout(RemoveEach(st, SortedSeq(DOMAIN st.columns), win), win)

\* resetLayout(): [ret, created, st] of the addPanelColumn call it ends with
resetLayout(st, win) ==
    createDefaultLayout(RemoveEach(st, SortedSeq(DOMAIN st.columns), win), win)

\* setup(): with no Krita instance nothing is done
setup(st, instance, win) ==
    IF ~instance THEN [ret |-> FALSE, created |-> 0, st |-> st]
    ELSE createDefaultLayout(st, win)

\* canvasChanged(canvas)
canvasChanged(st, canvas, win) ==
    IF canvas
    THEN ExtState(st.columns, updateColumnPositions(st.columns, st.geometry, win), st.next)
    ELSE st

(***************************************************************************)
(* The extension's operations as actions. ext_call records the call, the   *)
(* mapping before it, the id of the column it created (0: none) and        *)
(* whether it positioned the columns: updateColumnPositions was reached    *)
(* and found an active window.                                             *)
(***************************************************************************)
Broken == 0 - 1

ExtCall(op, arg, ret, created, updated) ==
    [op |-> op, arg |-> arg, ret |-> ret, before |-> panel_columns, created |-> created,
     positioned |-> (updated /\ window.open)]

Here == ExtState(panel_columns, geometry, nextWidget)

Become(st) ==
    /\ panel_columns' = st.columns
    /\ geometry' = st.geometry
    /\ nextWidget' = st.next

\* streak after a call of addPanelColumn
StreakAfterAdd == IF streak = Broken THEN Broken ELSE Min(streak + 1, MaxColumns + 1)

\* streak after any other call, which leaves the mapping cols
StreakAfterOther(cols) == IF DOMAIN cols = {} THEN 0 ELSE Broken

\* column_id arguments of removePanelColumn: None, ids at both ends of
\* 1..MaxColumns and the ids next to them (0 is also what the menu action's
\* triggered(checked=False) passes, False being equal to 0)
RemoveInputs == {PyNone} \cup {PyInt(i) : i \in {0, 1, 2, MaxColumns, MaxColumns + 1}}

AddPanelColumn ==
    LET r == addPanelColumn(Here, window)
    IN  /\ r.st.next <= MaxWidgets + 1
        /\ Become(r.st)
        /\ ext_call' = ExtCall("addPanelColumn", PyNone, PyBool(r.ret), r.created, r.ret)
        /\ streak' = StreakAfterAdd
        /\ UNCHANGED <<window, lmVars, wVars>>

RemovePanelColumn ==
    \E column_id \in RemoveInputs :
        LET r == removePanelColumn(Here, column_id, window)
        IN  /\ Become(r.st)
            /\ ext_call' = ExtCall("removePanelColumn", column_id, PyBool(r.ret), 0, r.ret)
            /\ streak' = StreakAfterOther(r.st.columns)
            /\ UNCHANGED <<window, lmVars, wVars>>

ResetLayout ==
    LET r == resetLayout(Here, window)
    IN  /\ r.st.next <= MaxWidgets + 1
        /\ Become(r.st)
        /\ ext_call' = ExtCall("resetLayout", PyNone, PyNone, r.created, r.ret)
        /\ streak' = 1
        /\ UNCHANGED <<window, lmVars, wVars>>

\* the host calls setup() once, when it loads the plugin
Setup ==
    \E instance \in BOOLEAN :
        LET r == setup(Here, instance, window)
        IN  /\ ext_call.op = "__init__"
            /\ r.st.next <= MaxWidgets + 1
            /\ Become(r.st)
            /\ ext_call' = ExtCall("setup", PyNone, PyNone, r.created, r.ret)
            /\ streak' = IF instance THEN StreakAfterAdd ELSE streak
            /\ UNCHANGED <<window, lmVars, wVars>>

CanvasChanged ==
    \E canvas \in BOOLEAN :
        /\ Become(canvasChanged(Here, canvas, window))
        /\ ext_call' = ExtCall("canvasChanged", PyBool(canvas), PyNone, 0, canvas)
        /\ streak' = StreakAfterOther(panel_columns)
        /\ UNCHANGED <<window, lmVars, wVars>>

\* the host opens its main window: activeWindow() is None until then
ActiveWindowOpens ==
    /\ window = NoWindow
    /\ window' = MainWindow
    /\ UNCHANGED <<panel_columns, geometry, nextWidget, ext_call, streak, lmVars, wVars>>

(***************************************************************************)
(* DragDropPanelWidget                                                     *)
(***************************************************************************)
StartDragDistance == 10

\* two instances of the widget: enough for a drag source and a drop target
Widgets == {"panelA", "panelB"}

\* event.source() of a drag that no widget of this class started
External == "external"

\* the style sheets of applyStyle and of highlightDropZone(True)
NormalStyle    == "border: 1px solid #3a3a3a"
HighlightStyle == "border: 2px solid #007acc"

\* the names the module's import statements bind
ModuleNames ==
    {"QWidget", "QVBoxLayout", "QLabel", "QSizeGrip",
     "Qt", "QMimeData", "pyqtSignal", "QPoint", "QSize",
     "QDrag", "QPixmap", "QPainter", "QColor", "QPen",
     "logging"}

Unset == [set |-> FALSE]
QPoint(x, y) == [set |-> TRUE, x |-> x, y |-> y]

Abs(n) == IF n < 0 THEN 0 - n ELSE n

\* (a - b).manhattanLength()
ManhattanLength(a, b) == Abs(a.x - b.x) + Abs(a.y - b.y)

\* event.pos(): two points closer than the drag distance, one farther away
PointInputs == {QPoint(0, 0), QPoint(4, 5), QPoint(StartDragDistance + 2, 0)}

\* event.mimeData(): hasText() and text()
NoText == [hasText |-> FALSE, text |-> ""]
Text(s) == [hasText |-> TRUE, text |-> s]
MimeInputs == {NoText, Text("panel"), Text("Panel"), Text("layer")}

\* applyStyle()
applyStyle == NormalStyle

\* highlightDropZone(highlight): the style sheet afterwards
highlightDropZone(highlight) == IF highlight THEN HighlightStyle ELSE applyStyle

\* mousePressEvent(event): self.dragStartPosition afterwards
mousePressEvent(start, button, pos) ==
    IF button = "LeftButton" THEN pos ELSE start

\* an except clause naming AttributeError instead of Exception
ExceptException_attributeOnly(raised) ==
    IF raised = "AttributeError" THEN [caught |-> raised, propagated |-> "none"]
    ELSE [caught |-> "none", propagated |-> raised]

\* 'except Exception as e: self.logger.error(...)' closing every handler:
\* whatever the try body raised ("none": nothing) is caught and logged, and
\* nothing leaves the handler
ExceptException(raised) == [caught |-> raised, propagated |-> "none"]

\* the try body of mouseMoveEvent(event): the exception it raised ("none":
\* none), and the drag operations drag.exec_ started
mouseMoveEvent(self, start, buttons, pos) ==
    IF "LeftButton" \notin buttons THEN [error |-> "none", started |-> {}]
    ELSE IF ~start.set THEN [error |-> "AttributeError", started |-> {}]
    ELSE IF "QApplication" \notin ModuleNames THEN [error |-> "NameError", started |-> {}]
    ELSE IF ManhattanLength(pos, start) < StartDragDistance
         THEN [error |-> "none", started |-> {}]
    ELSE [error |-> "none",
          started |-> {[source |-> self, text |-> "panel", action |-> "MoveAction"]}]

\* dragEnterEvent accepting any text
dragEnterEvent_anyText(st, mime) ==
    IF mime.hasText
    THEN [style |-> highlightDropZone(TRUE), event |-> "acceptProposedAction"]
    ELSE [style |-> st, event |-> "ignore"]

\* dragEnterEvent(event): the style sheet afterwards and what was done with
\* the event
dragEnterEvent(st, mime) ==
    IF mime.hasText /\ mime.text = "panel"
    THEN [style |-> highlightDropZone(TRUE), event |-> "acceptProposedAction"]
    ELSE [style |-> st, event |-> "ignore"]

\* dragLeaveEvent(event)
dragLeaveEvent(st) == [style |-> highlightDropZone(FALSE), event |-> "accept"]

\* dropEvent reverting the highlight only when it accepts the drop
dropEvent_keepHighlight(self, st, mime, pos) ==
    IF mime.hasText /\ mime.text = "panel"
    THEN [style   |-> highlightDropZone(FALSE),
          event   |-> "acceptProposedAction",
          emitted |-> <<[signal |-> "panelMoved", ref |-> self, arg |-> pos]>>]
    ELSE [style |-> st, event |-> "ignore", emitted |-> <<>>]

\* dropEvent(event): also the signals emitted
dropEvent(self, st, mime, pos) ==
    IF mime.hasText /\ mime.text = "panel"
    THEN [style   |-> highlightDropZone(FALSE),
          event   |-> "acceptProposedAction",
          emitted |-> <<[signal |-> "panelMoved", ref |-> self, arg |-> pos]>>]
    ELSE [style |-> highlightDropZone(FALSE), event |-> "ignore", emitted |-> <<>>]

\* resizeEvent(event): the signals emitted
resizeEvent(self, size) == <<[signal |-> "panelResized", ref |-> self, arg |-> size]>>

(***************************************************************************)
(* The widget's event handlers as actions. w_event records the event, the  *)
(* style sheet before it and what the handler did.                         *)
(***************************************************************************)
NoEntry == [hasText |-> FALSE, text |-> "(no drag-enter accepted)"]

NoEvent ==
    [handler |-> "__init__", widget |-> "none", mime |-> NoText, pos |-> Unset,
     held |-> FALSE, origin |-> Unset, source |-> External, before |-> NormalStyle,
     event |-> "none", emitted |-> <<>>, error |-> "none", started |-> {},
     propagated |-> "none"]

\* the event record of a handler whose try body raised the exception raised
Handled(event, raised) ==
    [event EXCEPT !.error = ExceptException(raised).caught,
                  !.propagated = ExceptException(raised).propagated]

\* faulted after a handler of widget w caught the exception caught
FaultedAfter(w, caught) == [faulted EXCEPT ![w] = @ \/ caught # "none"]

\* event.source() of a drag event: the widget whose drag is in progress, or
\* a source outside this class
SourceInputs == {External} \cup {d.source : d \in drags}

MousePressEvent ==
    \E w \in Widgets, button \in {"LeftButton", "RightButton"}, pos \in PointInputs :
        /\ dragStartPosition' =
               [dragStartPosition EXCEPT ![w] = mousePressEvent(@, button, pos)]
        /\ w_event' = Handled([NoEvent EXCEPT !.handler = "mousePressEvent", !.widget = w,
                                  !.pos = pos, !.held = (button = "LeftButton"),
                                  !.origin = dragStartPosition[w], !.before = style[w]],
                              "none")
        /\ UNCHANGED <<style, drags, entered, faulted, lmVars, extVars>>

MouseMoveEvent ==
    \E w \in Widgets, buttons \in SUBSET {"LeftButton", "RightButton"}, pos \in PointInputs :
        LET r == mouseMoveEvent(w, dragStartPosition[w], buttons, pos)
        IN  /\ drags' = drags \cup r.started
            /\ w_event' = Handled([NoEvent EXCEPT !.handler = "mouseMoveEvent", !.widget = w,
                                      !.pos = pos, !.held = ("LeftButton" \in buttons),
                                      !.origin = dragStartPosition[w], !.before = style[w],
                                      !.started = r.started],
                                  r.error)
            /\ faulted' = FaultedAfter(w, ExceptException(r.error).caught)
            /\ UNCHANGED <<style, dragStartPosition, entered, lmVars, extVars>>

DragEnterEvent ==
    \E w \in Widgets, mime \in MimeInputs, src \in SourceInputs :
        LET r == dragEnterEvent(style[w], mime)
        IN  /\ style' = [style EXCEPT ![w] = r.style]
            /\ entered' = [entered EXCEPT ![w] =
                              IF r.event = "acceptProposedAction" THEN mime ELSE @]
            /\ w_event' = Handled([NoEvent EXCEPT !.handler = "dragEnterEvent", !.widget = w,
                                      !.mime = mime, !.source = src, !.before = style[w],
                                      !.event = r.event],
                                  "none")
            /\ UNCHANGED <<dragStartPosition, drags, faulted, lmVars, extVars>>

DragLeaveEvent ==
    \E w \in Widgets :
        LET r == dragLeaveEvent(style[w])
        IN  /\ style' = [style EXCEPT ![w] = r.style]
            /\ entered' = [entered EXCEPT ![w] = NoEntry]
            /\ w_event' = Handled([NoEvent EXCEPT !.handler = "dragLeaveEvent", !.widget = w,
                                      !.before = style[w], !.event = r.event],
                                  "none")
            /\ UNCHANGED <<dragStartPosition, drags, faulted, lmVars, extVars>>

DropEvent ==
    \E w \in Widgets, mime \in MimeInputs, src \in SourceInputs, pos \in PointInputs :
        LET r == dropEvent(w, style[w], mime, pos)
        IN  /\ style' = [style EXCEPT ![w] = r.style]
            /\ drags' = {d \in drags : d.source # src}
            /\ entered' = [entered EXCEPT ![w] = NoEntry]
            /\ w_event' = Handled([NoEvent EXCEPT !.handler = "dropEvent", !.widget = w,
                                      !.mime = mime, !.pos = pos, !.source = src,
                                      !.before = style[w], !.event = r.event,
                                      !.emitted = r.emitted],
                                  "none")
            /\ UNCHANGED <<dragStartPosition, faulted, lmVars, extVars>>

ResizeEvent ==
    \E w \in Widgets, size \in {<<100, 100>>, <<200, 600>>} :
        /\ w_event' = Handled([NoEvent EXCEPT !.handler = "resizeEvent", !.widget = w,
                                  !.before = style[w], !.emitted = resizeEvent(w, size)],
                              "none")
        /\ UNCHANGED <<style, dragStartPosition, drags, entered, faulted, lmVars, extVars>>

(***************************************************************************)
(* Initial states and specifications.                                      *)
(***************************************************************************)
\* _get_config_path() has resolved the path or failed; there is no record
InitLayout ==
    /\ config_path \in {NoPath, ThePath}
    /\ file = NoFile
    /\ lm_call = Call("__init__", PyNone, "none", PyNone)
    /\ lm_prev = Abridge(lm_call)
    /\ cleared = FALSE

\* _get_config_path() has resolved the path, where a record of RecordInputs
\* lies
InitLayoutRecord ==
    /\ config_path = ThePath
    /\ file \in {FileOf(doc) : doc \in RecordInputs}
    /\ lm_call = Call("__init__", PyNone, "none", PyNone)
    /\ lm_prev = Abridge(lm_call)
    /\ cleared = FALSE

InitExtension ==
    /\ panel_columns = <<>>
    /\ geometry = <<>>
    /\ nextWidget = 1
    /\ ext_call = [op |-> "__init__", arg |-> PyNone, ret |-> PyNone,
                   before |-> <<>>, created |-> 0, positioned |-> FALSE]
    /\ streak = 0
    /\ window = NoWindow

InitWidget ==
    /\ style = [w \in Widgets |-> applyStyle]
    /\ dragStartPosition = [w \in Widgets |-> Unset]
    /\ drags = {}
    /\ entered = [w \in Widgets |-> NoEntry]
    /\ w_event = NoEvent
    /\ faulted = [w \in Widgets |-> FALSE]

Init == InitLayout /\ InitExtension /\ InitWidget

\* the three objects constructed where a record lies already
InitRecord == InitLayoutRecord /\ InitExtension /\ InitWidget

\* the layout manager left alone, its path resolved and no record yet
InitIdleLayout == Init /\ config_path = ThePath /\ file = NoFile

NextLayout ==
    \/ SaveLayout
    \/ LoadLayout
    \/ GetDefaultLayout
    \/ ValidateLayout
    \/ ClearSavedLayout

\* the operations that read or write the durable record
NextRecord ==
    \/ SaveLayout
    \/ LoadLayout
    \/ ClearSavedLayout

NextExtension ==
    \/ Setup
    \/ AddPanelColumn
    \/ RemovePanelColumn
    \/ ResetLayout
    \/ CanvasChanged
    \/ ActiveWindowOpens

NextWidget ==
    \/ MousePressEvent
    \/ MouseMoveEvent
    \/ DragEnterEvent
    \/ DragLeaveEvent
    \/ DropEvent
    \/ ResizeEvent

SpecLayout    == Init /\ [][NextLayout]_vars
SpecRecord    == InitRecord /\ [][NextRecord]_vars
SpecExtension == InitIdleLayout /\ [][NextExtension]_vars
SpecWidget    == InitIdleLayout /\ [][NextWidget]_vars

(***************************************************************************)
(* Properties of the layout manager (SpecLayout).                          *)
(***************************************************************************)
\* loaded is a dict with the column ids of columns, each item holding the
\* column's x, y, width, height and visibility
SameLayout(columns, loaded) ==
    /\ IsInstanceDict(loaded)
    /\ DOMAIN loaded.f = {PyInt(k) : k \in DOMAIN columns}
    /\ \A k \in DOMAIN columns :
          LET item == loaded.f[PyInt(k)]
          IN  /\ IsInstanceDict(item)
              /\ DOMAIN item.f = {"geometry", "visible"}
              /\ IsInstanceQRect(item.f.geometry)
              /\ RectX(item.f.geometry) = RectX(columns[k].geometry)
              /\ RectY(item.f.geometry) = RectY(columns[k].geometry)
              /\ RectWidth(item.f.geometry) = RectWidth(columns[k].geometry)
              /\ RectHeight(item.f.geometry) = RectHeight(columns[k].geometry)
              /\ item.f.visible = PyBool(columns[k].visible)

\* a loadLayout() that could open the record, right after a successful
\* saveLayout of at most MaxColumns columns
LoadedAfterSave ==
    /\ lm_call.op = "loadLayout"
    /\ lm_call.env = "none"
    /\ lm_prev.op = "saveLayout"
    /\ lm_prev.ret = PyBool(TRUE)
    /\ Cardinality(DOMAIN lm_prev.arg) <= MaxColumns

\* C1: round trip. A loadLayout() that follows a successful saveLayout(S) of
\* at most 8 columns immediately, and reads the record without an I/O fault,
\* returns a mapping with exactly the int column ids of S, each item's
\* geometry having the panel's x, y, width and height and its visible flag
\* being the panel's visibility.
C1_RoundTrip == LoadedAfterSave => SameLayout(lm_prev.arg, lm_call.ret)

\* C1 witness: eight columns, among them a hidden panel at negative
\* coordinates, were saved and loaded back
C1_Witness ==
    /\ LoadedAfterSave
    /\ Cardinality(DOMAIN lm_prev.arg) = MaxColumns
    /\ \E k \in DOMAIN lm_prev.arg :
          ~lm_prev.arg[k].visible /\ RectX(lm_prev.arg[k].geometry) < 0
    /\ IsInstanceDict(lm_call.ret)

\* the mappings the claim says validateLayout rejects
MustBeRejected(layout_data) ==
    /\ IsInstanceDict(layout_data)
    /\ \/ Cardinality(DOMAIN layout_data.f) > MaxColumns
       \/ \E k \in DOMAIN layout_data.f :
             LET item == layout_data.f[k]
             IN  /\ IsInstanceDict(item)
                 /\ \/ /\ "visible" \in DOMAIN item.f
                       /\ ~IsInstanceBool(item.f.visible)
                    \/ /\ "geometry" \in DOMAIN item.f
                       /\ IsInstanceQRect(item.f.geometry)
                       /\ \/ RectWidth(item.f.geometry) < 0
                          \/ RectHeight(item.f.geometry) < 0

\* C2: validateLayout returns False for every mapping with more than 8
\* items, or with an item whose visibility is no bool, or with an item whose
\* geometry has a negative width or height.
C2_ValidateRejects ==
    (lm_call.op = "validateLayout" /\ MustBeRejected(lm_call.arg))
        => lm_call.ret = PyBool(FALSE)

\* the entries of the durable record, as json.load yields them
RecordItems ==
    IF file.exists /\ file.doc.t = "object" THEN JsonLoadMembers(file.doc.members)
    ELSE <<>>

\* an entry whose key is no integer or that lacks one of the five fields
DefectiveItem(item) ==
    \/ ~IntOfStr(item[1]).ok
    \/ ~IsInstanceDict(item[2])
    \/ ~({"x", "y", "width", "height", "visible"} \subseteq DOMAIN item[2].f)

\* the record that the last call found is missing, unreadable, not
\* parseable or has a defective entry
DefectiveRecord ==
    \/ config_path = NoPath
    \/ ~lm_call.existed
    \/ lm_call.env = "open"
    \/ file.doc.t = "unparseable"
    \/ \E i \in 1..Len(RecordItems) : DefectiveItem(RecordItems[i])

\* the entry item of the record is in the mapping loaded
ConvertedItem(item, loaded) ==
    /\ IntOfStr(item[1]).ok
    /\ PyInt(IntOfStr(item[1]).v) \in DOMAIN loaded.f
    /\ LET entry == loaded.f[PyInt(IntOfStr(item[1]).v)]
       IN  /\ IsInstanceDict(entry)
           /\ DOMAIN entry.f = {"geometry", "visible"}
           /\ IsInstanceQRect(entry.f.geometry)

\* C11: loadLayout() returns None or a mapping, never anything else; it
\* returns None whenever the record is missing, cannot be read, cannot be
\* parsed, or has an entry with a non-integer key or without one of x, y,
\* width, height, visible; and it returns a mapping only when every entry
\* of the record was converted into it.
C11_LoadAllOrNothing ==
    lm_call.op = "loadLayout" =>
        /\ lm_call.ret = PyNone \/ IsInstanceDict(lm_call.ret)
        /\ DefectiveRecord => lm_call.ret = PyNone
        /\ IsInstanceDict(lm_call.ret) =>
              /\ file.exists /\ file.doc.t = "object"
              /\ \A i \in 1..Len(RecordItems) : ConvertedItem(RecordItems[i], lm_call.ret)
              /\ \A k \in DOMAIN lm_call.ret.f :
                    \E i \in 1..Len(RecordItems) :
                        IntOfStr(RecordItems[i][1]).ok
                        /\ k = PyInt(IntOfStr(RecordItems[i][1]).v)

\* C11 witness: a readable record whose first entry is sound and whose
\* second entry is defective was loaded
C11_Witness ==
    /\ lm_call.op = "loadLayout"
    /\ lm_call.env = "none"
    /\ Len(RecordItems) = 2
    /\ ~DefectiveItem(RecordItems[1])
    /\ DefectiveItem(RecordItems[2])
    /\ lm_call.ret = PyNone

\* C11 witness of a mapping returned for a record of an earlier session
C11_WitnessLoaded ==
    /\ lm_call.op = "loadLayout"
    /\ lm_prev.op = "__init__"
    /\ IsInstanceDict(lm_call.ret)
    /\ Len(RecordItems) = 2

\* the snapshot invariant: at most 8 entries, no negative width or height,
\* boolean visibility
SnapshotInvariant(loaded) ==
    /\ Cardinality(DOMAIN loaded.f) <= MaxColumns
    /\ \A k \in DOMAIN loaded.f :
          /\ RectWidth(loaded.f[k].f.geometry) >= 0
          /\ RectHeight(loaded.f[k].f.geometry) >= 0
          /\ IsInstanceBool(loaded.f[k].f.visible)

\* C12: every mapping that loadLayout() returns, whatever the record holds,
\* has at most 8 entries, no negative width or height and boolean
\* visibility.
C12_LoadedIsSnapshot ==
    lm_call.op = "loadLayout" /\ IsInstanceDict(lm_call.ret)
        => SnapshotInvariant(lm_call.ret)

C13_WitnessLoad ==
    /\ cleared
    /\ lm_call.op = "loadLayout"
    /\ lm_call.env = "none"
    /\ lm_prev.op = "saveLayout"
    /\ file.exists

\* C15: with no configuration path, saveLayout returns False and no record
\* comes to exist, loadLayout returns None and clearSavedLayout returns
\* False; and a saveLayout that cannot open or write its file returns
\* False.
C15_DisabledManager ==
    /\ config_path = NoPath =>
          /\ file = NoFile
          /\ lm_call.op = "saveLayout" => lm_call.ret = PyBool(FALSE)
          /\ lm_call.op = "loadLayout" => lm_call.ret = PyNone
          /\ lm_call.op = "clearSavedLayout" => lm_call.ret = PyBool(FALSE)
    /\ lm_call.op = "saveLayout" /\ lm_call.env # "none" => lm_call.ret = PyBool(FALSE)

\* C15 witness: saveLayout of some columns without a configuration path,
\* no file system fault at hand
C15_Witness ==
    /\ config_path = NoPath
    /\ lm_call.op = "saveLayout"
    /\ lm_call.env = "none"
    /\ DOMAIN lm_call.arg # {}

\* C15 witness of a saveLayout at an unwritable location
C15_WitnessUnwritable ==
    /\ config_path = ThePath
    /\ lm_call.op = "saveLayout"
    /\ lm_call.env = "open"

\* C16: getDefaultLayout() returns, whatever the record holds and whatever
\* was called before, the mapping of the one column id 1 with geometry
\* (0, 0, 200, 600) and visible True, which validateLayout accepts.
C16_DefaultLayout ==
    lm_call.op = "getDefaultLayout" =>
        /\ IsInstanceDict(lm_call.ret)
        /\ DOMAIN lm_call.ret.f = {PyInt(1)}
        /\ LET item == lm_call.ret.f[PyInt(1)]
           IN  /\ IsInstanceDict(item)
               /\ DOMAIN item.f = {"geometry", "visible"}
               /\ RectX(item.f.geometry) = 0
               /\ RectY(item.f.geometry) = 0
               /\ RectWidth(item.f.geometry) = 200
               /\ RectHeight(item.f.geometry) = 600
               /\ item.f.visible = PyBool(TRUE)
        /\ validateLayout(lm_call.ret)

\* C16 witness: a second getDefaultLayout() in a row, a record of several
\* columns being saved
C16_Witness ==
    /\ lm_call.op = "getDefaultLayout"
    /\ lm_prev.op = "getDefaultLayout"
    /\ file.exists
    /\ file.doc.t = "object"
    /\ Len(file.doc.members) = MaxColumns

(***************************************************************************)
(* Properties of the extension (SpecExtension).                            *)
(***************************************************************************)
Columns(cols) == Cardinality(DOMAIN cols)

\* C3: an addPanelColumn() called with 8 columns returns False and leaves
\* the mapping as it was: the same 8 ids bound to the same widgets.
C3_NinthColumnRefused ==
    (ext_call.op = "addPanelColumn" /\ Columns(ext_call.before) = MaxColumns)
        => /\ ext_call.ret = PyBool(FALSE)
           /\ panel_columns = ext_call.before

\* C3 witness: addPanelColumn() was called with 8 columns
C3_Witness ==
    /\ ext_call.op = "addPanelColumn"
    /\ Columns(ext_call.before) = MaxColumns
    /\ ext_call.ret = PyBool(FALSE)

\* a removePanelColumn(id) whose id is no key of the mapping
RemovedUnknownId ==
    /\ ext_call.op = "removePanelColumn"
    /\ ext_call.arg # PyNone
    /\ ext_call.arg.v \notin DOMAIN ext_call.before

\* C4: removePanelColumn(id) with an id that is no key of the mapping
\* returns False and leaves the mapping as it was, the empty mapping included.
C4_RemoveUnknownId ==
    RemovedUnknownId
        => /\ ext_call.ret = PyBool(FALSE)
           /\ panel_columns = ext_call.before

\* C4 witness: an unknown id was given while columns existed
C4_Witness == RemovedUnknownId /\ Columns(ext_call.before) >= 2

\* C4 witness of the empty case (covered by C4_RemoveUnknownId as well)
C4_WitnessEmpty == RemovedUnknownId /\ ext_call.before = <<>>

\* C5: removePanelColumn() without an id, on a non-empty mapping, returns
\* True and removes exactly the entry with the maximum id, every other entry
\* staying bound to its widget; on the empty mapping it returns False.
C5_RemoveLast ==
    (ext_call.op = "removePanelColumn" /\ ext_call.arg = PyNone)
        => IF ext_call.before = <<>>
           THEN ext_call.ret = PyBool(FALSE) /\ panel_columns = <<>>
           ELSE /\ ext_call.ret = PyBool(TRUE)
                /\ DOMAIN panel_columns =
                       DOMAIN ext_call.before \ {MaxKey(ext_call.before)}
                /\ \A k \in DOMAIN panel_columns :
                       panel_columns[k] = ext_call.before[k]

\* C5 witness: the last of several columns, with ids that are not
\* contiguous, was removed
C5_Witness ==
    /\ ext_call.op = "removePanelColumn"
    /\ ext_call.arg = PyNone
    /\ Columns(ext_call.before) >= 2
    /\ DOMAIN ext_call.before # 1..Columns(ext_call.before)
    /\ ext_call.ret = PyBool(TRUE)

\* C6: of the addPanelColumn() calls made one after the other from the empty
\* mapping, the k-th (k = 1..8) succeeds and creates the column with id k,
\* so that the ids are 1..k; the ninth returns False and 8 columns remain.
C6_EightThenRefused ==
    /\ streak \in 1..MaxColumns
          => /\ ext_call.created = streak
             /\ DOMAIN panel_columns = 1..streak
             /\ ext_call.op = "addPanelColumn" => ext_call.ret = PyBool(TRUE)
    /\ streak = MaxColumns + 1
          => /\ ext_call.op = "addPanelColumn"
             /\ ext_call.ret = PyBool(FALSE)
             /\ ext_call.created = 0
             /\ DOMAIN panel_columns = 1..MaxColumns

\* C6 witness: the ninth call in a row was made
C6_Witness == streak = MaxColumns + 1 /\ ext_call.op = "addPanelColumn"

\* C17: in every state reached by addPanelColumn, removePanelColumn and
\* resetLayout from the empty controller, the column ids are integers of
\* 1..8 and there are at most 8 of them (the mapping being a function, no
\* id occurs twice).
C17_ColumnIds ==
    /\ DOMAIN panel_columns \subseteq 1..MaxColumns
    /\ Columns(panel_columns) <= MaxColumns

\* C17 witness: a column was added after the lowest of eight columns had
\* been removed
C17_Witness ==
    /\ ext_call.op = "addPanelColumn"
    /\ ext_call.ret = PyBool(TRUE)
    /\ DOMAIN ext_call.before = 2..MaxColumns

\* C18: an addPanelColumn() that returns True leaves one column more than
\* before, under an id that was not in use, and every id of before still
\* bound to the widget it was bound to.
C18_AddKeepsColumns ==
    ext_call.op = "addPanelColumn" /\ ext_call.ret = PyBool(TRUE) =>
        /\ Columns(panel_columns) = Columns(ext_call.before) + 1
        /\ ext_call.created \notin DOMAIN ext_call.before
        /\ \A k \in DOMAIN ext_call.before :
              k \in DOMAIN panel_columns /\ panel_columns[k] = ext_call.before[k]

\* the columns a and b share a pixel column
Overlap(a, b) ==
    /\ RectX(a) < RectX(b) + RectWidth(b)
    /\ RectX(b) < RectX(a) + RectWidth(a)

\* C19: after a call that positioned n >= 1 columns in the active window
\* of width W, every column is W div n wide, lies within 0..W
\* horizontally, and no two columns overlap.
C19_ColumnsTileWindow ==
    ext_call.positioned /\ Columns(panel_columns) >= 1 =>
        \A k \in DOMAIN panel_columns :
            LET g == geometry[panel_columns[k]]
            IN  /\ RectWidth(g) = window.width \div Columns(panel_columns)
                /\ 0 <= RectX(g)
                /\ RectX(g) + RectWidth(g) <= window.width
                /\ \A j \in DOMAIN panel_columns \ {k} :
                      ~Overlap(g, geometry[panel_columns[j]])

\* the widgets the mapping cols holds
WidgetsOf(cols) == {cols[k] : k \in DOMAIN cols}

\* C20: after resetLayout(), whatever the mapping held before, there is the
\* one column 1, bound to the widget constructed last, which none of the
\* columns of before was bound to.
C20_ResetToSingleColumn ==
    ext_call.op = "resetLayout" =>
        /\ DOMAIN panel_columns = {1}
        /\ ext_call.created = 1
        /\ panel_columns[1] = nextWidget - 1
        /\ WidgetsOf(panel_columns) \cap WidgetsOf(ext_call.before) = {}

\* C20 witness: resetLayout() with eight columns
C20_Witness ==
    /\ ext_call.op = "resetLayout"
    /\ Columns(ext_call.before) = MaxColumns

\* C20 witness of ids that are not 1..n
C20_WitnessGap ==
    /\ ext_call.op = "resetLayout"
    /\ DOMAIN ext_call.before = {2, 3}

\* C20 witness of the empty mapping
C20_WitnessEmpty == ext_call.op = "resetLayout" /\ ext_call.before = <<>>

\* C20 witness of a layout that was the default one already
C20_WitnessDefault == ext_call.op = "resetLayout" /\ DOMAIN ext_call.before = {1}

(***************************************************************************)
(* Properties of the widget (SpecWidget).                                  *)
(***************************************************************************)
IsPanel(mime) == mime.hasText /\ mime.text = "panel"

\* C7: a drag-enter whose payload has no text, or a text other than
\* "panel", leaves the widget's style as it was and is ignored.
C7_ForeignDragIgnored ==
    (w_event.handler = "dragEnterEvent" /\ ~IsPanel(w_event.mime))
        => /\ style[w_event.widget] = w_event.before
           /\ w_event.event = "ignore"

\* C7 witness: a text payload other than "panel" entered a widget that was
\* not highlighted
C7_Witness ==
    /\ w_event.handler = "dragEnterEvent"
    /\ w_event.mime = Text("Panel")
    /\ w_event.before = NormalStyle

\* C8: right after a drag-leave or a drop, whatever the payload, the
\* widget's style is the non-highlighted one; and a widget is highlighted
\* only between a drag-enter with payload "panel" that it accepted and its
\* next drag-leave or drop.
C8_NoResidualHighlight ==
    /\ w_event.handler \in {"dragLeaveEvent", "dropEvent"}
          => style[w_event.widget] = NormalStyle
    /\ \A w \in Widgets :
          style[w] = HighlightStyle
              => entered[w] = Text("panel")

\* C8 witness: a drop with a foreign payload on a highlighted widget
C8_Witness ==
    /\ w_event.handler = "dropEvent"
    /\ ~IsPanel(w_event.mime)
    /\ w_event.before = HighlightStyle

\* C8 witness of a highlighted widget
C8_WitnessHighlighted == \E w \in Widgets : style[w] = HighlightStyle

\* C9: after a primary-button press recorded an origin, a move with the
\* button held and a displacement beyond the drag distance starts a
\* move-type drag carrying the text "panel"; a move with the button not
\* held, or closer than the drag distance, starts none.
C9_DragStarts ==
    (w_event.handler = "mouseMoveEvent" /\ w_event.origin.set)
        => IF w_event.held
              /\ ManhattanLength(w_event.pos, w_event.origin) > StartDragDistance
           THEN w_event.started =
                    {[source |-> w_event.widget, text |-> "panel", action |-> "MoveAction"]}
           ELSE w_event.started = {}

\* C10: a drop with payload "panel" emits exactly one panelMoved carrying the
\* drag's source widget and the drop position, and is accepted; a drop with
\* any other payload emits nothing and is ignored.
C10_DropNotifies ==
    w_event.handler = "dropEvent"
        => IF IsPanel(w_event.mime)
           THEN /\ w_event.emitted =
                       <<[signal |-> "panelMoved", ref |-> w_event.source, arg |-> w_event.pos]>>
                /\ w_event.event = "acceptProposedAction"
           ELSE w_event.emitted = <<>> /\ w_event.event = "ignore"

\* C14: no handler lets an exception leave it, whatever events came before:
\* a move with the primary button held on a widget that saw no press raises
\* AttributeError, which is caught, and starts no drag; and a widget that
\* has caught an exception still handles the events that follow: a press
\* records its origin, a drag-enter and a drop of "panel" are accepted, a
\* drop and a resize emit their signals.
C14_NoHandlerRaises ==
    /\ w_event.propagated = "none"
    /\ /\ w_event.handler = "mouseMoveEvent"
       /\ w_event.held
       /\ ~w_event.origin.set
       => w_event.error = "AttributeError" /\ w_event.started = {}
    /\ w_event.error # "none" => faulted[w_event.widget]
    /\ w_event.widget \in Widgets /\ faulted[w_event.widget] =>
          /\ w_event.handler = "mousePressEvent" /\ w_event.held
                => dragStartPosition[w_event.widget] = w_event.pos
          /\ w_event.handler = "dragEnterEvent" /\ w_event.mime = Text("panel")
                => /\ w_event.event = "acceptProposedAction"
                   /\ style[w_event.widget] = HighlightStyle
          /\ w_event.handler = "dropEvent" /\ w_event.mime = Text("panel")
                => /\ w_event.event = "acceptProposedAction"
                   /\ Len(w_event.emitted) = 1
          /\ w_event.handler = "resizeEvent" => Len(w_event.emitted) = 1

\* C14 witness: a move with the primary button held reached a widget that
\* had seen no press
C14_Witness ==
    /\ w_event.handler = "mouseMoveEvent"
    /\ w_event.held
    /\ ~w_event.origin.set
    /\ w_event.error = "AttributeError"

\* C14 witness of an exception other than that of the unset origin
C14_WitnessNameError ==
    w_event.handler = "mouseMoveEvent" /\ w_event.error = "NameError"

\* C14 witness of an event handled by a widget that caught an exception
\* earlier
C14_WitnessLater ==
    /\ w_event.handler = "dropEvent"
    /\ w_event.mime = Text("panel")
    /\ faulted[w_event.widget]
    /\ style[w_event.widget] = NormalStyle
    /\ w_event.before = HighlightStyle

====
